---- MODULE Spec2Model ----
(***************************************************************************)
(* The neuromorphic memory manager (memoryManager.ts): a store of memory   *)
(* records with importance detection, read-time decay, ranked retrieval,   *)
(* access strengthening, statistics and dream-state consolidation.         *)
(*                                                                         *)
(* Numbers.  The code computes in doubles; the model computes the same     *)
(* expressions exactly, in fixed point.  A score s is held as s * One.     *)
(* Weights and protections are held in hundredths.  Time is counted in     *)
(* ticks, TicksPerDay ticks to a day; One is chosen so that the decay of   *)
(* one tick is a whole number of score units.                              *)
(*                                                                         *)
(* Text.  A string is a sequence of one-character strings, so that         *)
(* toLowerCase, includes and the \b\w+\b match are computed on characters. *)
(***************************************************************************)
EXTENDS Integers, Sequences, FiniteSets, TLC

VARIABLES
    memories,   \* this.memories: the records, in insertion order
    now,        \* the wall clock read by Date.now() / new Date(), in ticks
    op,         \* the public method called last
    arg,        \* its arguments
    ret,        \* what it returned
    before,     \* this.memories as that call found it
    passes      \* the number of dreamStateProcessing calls so far

vars == <<memories, now, op, arg, ret, before, passes>>

----------------------------------------------------------------------------
(* Bounds of the model *)

MaxMemories == 2      \* records created
MaxUsage == 4         \* usage_count up to which a record is accessed
MaxNow == 1           \* last clock reading, in ticks
MaxPasses == 2        \* dreamStateProcessing calls
MaxRandom == 1        \* values Math.random() takes

----------------------------------------------------------------------------
(* Fixed point *)

TicksPerDay == 2
One == 10000 * TicksPerDay
Frac(hundredths) == (hundredths * One) \div 100

Min(a, b) == IF a <= b THEN a ELSE b
Max(a, b) == IF a >= b THEN a ELSE b

\* The value of an arithmetic expression one of whose operands is not a number.
NaN == -1000000
IsNaN(x) == x = NaN

----------------------------------------------------------------------------
(* Text *)

UpperCase == <<"A","B","C","D","E","F","G","H","I","J","K","L","M",
               "N","O","P","Q","R","S","T","U","V","W","X","Y","Z">>
LowerCase == <<"a","b","c","d","e","f","g","h","i","j","k","l","m",
               "n","o","p","q","r","s","t","u","v","w","x","y","z">>
Digits == {"0","1","2","3","4","5","6","7","8","9"}

Range(s) == {s[i] : i \in 1..Len(s)}

\* \w of the regular expression: letters, digits and the underscore.
WordChars == Range(UpperCase) \cup Range(LowerCase) \cup Digits \cup {"_"}

toLowerCaseChar(c) ==
    IF c \in Range(UpperCase)
    THEN LowerCase[CHOOSE i \in 1..Len(UpperCase) : UpperCase[i] = c]
    ELSE c

toLowerCase(s) == [i \in 1..Len(s) |-> toLowerCaseChar(s[i])]

\* String.prototype.includes
includes(s, sub) ==
    \E i \in 0..(Len(s) - Len(sub)) : SubSeq(s, i + 1, i + Len(sub)) = sub

\* s.match(/\b\w+\b/g) || []: the maximal runs of word characters, in order.
RECURSIVE matchWords(_, _, _)
matchWords(s, i, word) ==
    IF i > Len(s)
    THEN IF word = << >> THEN << >> ELSE <<word>>
    ELSE IF s[i] \in WordChars
         THEN matchWords(s, i + 1, Append(word, s[i]))
         ELSE IF word = << >>
              THEN matchWords(s, i + 1, << >>)
              ELSE <<word>> \o matchWords(s, i + 1, << >>)

----------------------------------------------------------------------------
(* Scoring engine *)

EmotionFlags == {"happy", "sad", "angry", "neutral", "excited", "anxious", "curious"}

emotionalWeights ==
    [e \in EmotionFlags |->
        CASE e = "happy"   -> 70
          [] e = "excited" -> 80
          [] e = "anxious" -> 90
          [] e = "angry"   -> 85
          [] e = "sad"     -> 75
          [] e = "curious" -> 60
          [] e = "neutral" -> 30]

\* Property names an object literal inherits from Object.prototype: the lookup
\* emotionalWeights[emotion] finds a function (or the prototype) under them.
InheritedKeys ==
    {"constructor", "toString", "valueOf", "hasOwnProperty", "isPrototypeOf",
     "propertyIsEnumerable", "toLocaleString", "__proto__"}

\* emotionalWeights[emotion] || 0.3, in hundredths.  Every own value is
\* truthy; an inherited value is truthy too and is returned as it is, and is
\* no number.
getEmotionalWeight(emotion) ==
    IF emotion \in EmotionFlags THEN emotionalWeights[emotion]
    ELSE IF emotion \in InheritedKeys THEN NaN
    ELSE 30

\* Math.min(0.8, memory.usage_count * 0.1), in hundredths.
\* Variant: the protection without its cap.
usageProtectionNoCap(usage_count) == usage_count * 10
\* Variant: the cap at 0.5.
usageProtectionCapHalf(usage_count) == Min(50, usage_count * 10)
usageProtection(usage_count) == Min(80, usage_count * 10)

\* Variant: the whole emotional weight taken as the protection.
emotionalProtectionWhole(emotion) == getEmotionalWeight(emotion)

\* getEmotionalWeight(emotion) * 0.2, in hundredths.
emotionalProtection(emotion) ==
    IF IsNaN(getEmotionalWeight(emotion)) THEN NaN
    ELSE (getEmotionalWeight(emotion) * 20) \div 100

\* baseDamping * (1 - usageProtection - emotionalProtection): the decay per
\* day in ten-thousandths, which is the decay per tick in score units.
\* Variant: the protections subtracted the wrong way round.
effectiveDecayNegated(usage_count, emotion) ==
    IF IsNaN(emotionalProtection(emotion)) THEN NaN
    ELSE 5 * (usageProtection(usage_count) + emotionalProtection(emotion) - 100)
effectiveDecay(usage_count, emotion) ==
    IF IsNaN(emotionalProtection(emotion)) THEN NaN
    ELSE 5 * (100 - usageProtection(usage_count) - emotionalProtection(emotion))

\* calculateDecay(memory) when Date.now() reads t.  new Date(last_accessed)
\* parses the ISO string toISOString() wrote, which carries the milliseconds
\* in full, so the parsed time is the time that was written.
calculateDecayAt(memory, t) ==
    IF IsNaN(effectiveDecay(memory.usage_count, memory.emotion_flag)) THEN NaN
    ELSE Max(0, memory.importance_score
                - effectiveDecay(memory.usage_count, memory.emotion_flag)
                  * (t - memory.last_accessed))

importanceKeywords ==
    << <<"i","m","p","o","r","t","a","n","t">>,
       <<"c","r","i","t","i","c","a","l">>,
       <<"u","r","g","e","n","t">>,
       <<"r","e","m","e","m","b","e","r">>,
       <<"n","e","v","e","r"," ","f","o","r","g","e","t">>,
       <<"w","a","r","n","i","n","g">>,
       <<"d","a","n","g","e","r">>,
       <<"e","m","e","r","g","e","n","c","y">>,
       <<"s","e","c","r","e","t">>,
       <<"p","a","s","s","w","o","r","d">>,
       <<"k","e","y">> >>

emotionalKeywords ==
    << <<"l","o","v","e">>,
       <<"h","a","t","e">>,
       <<"f","e","a","r">>,
       <<"j","o","y">>,
       <<"a","n","g","e","r">>,
       <<"e","x","c","i","t","e","d">>,
       <<"w","o","r","r","i","e","d">> >>

\* Variant: a keyword counted once for each place it occurs at.
keywordHitsEvery(keywords, content) ==
    Cardinality({p \in (1..Len(keywords)) \X (0..Len(content)) :
                    /\ p[2] + Len(keywords[p[1]]) <= Len(content)
                    /\ SubSeq(toLowerCase(content), p[2] + 1,
                              p[2] + Len(keywords[p[1]])) = keywords[p[1]]})

\* The number of keywords of the list that content.toLowerCase() includes:
\* forEach visits each keyword of the list once.
keywordHits(keywords, content) ==
    Cardinality({k \in 1..Len(keywords) : includes(toLowerCase(content), keywords[k])})

\* The score before the final Math.min(1, score).
rawImportance(content) ==
    Frac(30)
    + Frac(20) * keywordHits(importanceKeywords, content)
    + Frac(15) * keywordHits(emotionalKeywords, content)
    + (IF Len(content) > 200 THEN Frac(10) ELSE 0)
    + (IF Len(content) > 500 THEN Frac(10) ELSE 0)

\* Variant: the score returned without Math.min.
detectImportanceNoClamp(content) == rawImportance(content)
detectImportance(content) == Min(One, rawImportance(content))

----------------------------------------------------------------------------
(* Tag extractor *)

commonWords ==
    { <<"t","h","e">>, <<"a","n","d">>, <<"o","r">>, <<"b","u","t">>,
      <<"i","n">>, <<"o","n">>, <<"a","t">>, <<"t","o">>, <<"f","o","r">>,
      <<"o","f">>, <<"w","i","t","h">>, <<"b","y">>, <<"i","s">>,
      <<"a","r","e">>, <<"w","a","s">>, <<"w","e","r","e">>, <<"b","e">>,
      <<"b","e","e","n">>, <<"h","a","v","e">>, <<"h","a","s">>,
      <<"h","a","d">>, <<"d","o">>, <<"d","o","e","s">>, <<"d","i","d">>,
      <<"w","i","l","l">>, <<"w","o","u","l","d">>, <<"c","o","u","l","d">>,
      <<"s","h","o","u","l","d">>, <<"m","a","y">>, <<"m","i","g","h","t">>,
      <<"c","a","n">>, <<"a">>, <<"a","n">> }

\* words.filter(word => word.length > 3 && !commonWords.has(word))
\* Variant: words of 3 characters kept.
tagWordsFromThree(content) ==
    SelectSeq(matchWords(toLowerCase(content), 1, << >>),
              LAMBDA w : Len(w) >= 3 /\ w \notin commonWords)

tagWords(content) ==
    SelectSeq(matchWords(toLowerCase(content), 1, << >>),
              LAMBDA w : Len(w) > 3 /\ w \notin commonWords)

\* acc[word] after the reduce: the number of occurrences of word.
tagCount(ws, w) == Cardinality({i \in 1..Len(ws) : ws[i] = w})

firstIndex(ws, w) == CHOOSE i \in 1..Len(ws) : ws[i] = w /\ \A j \in 1..(i - 1) : ws[j] # w

DigitOrder == <<"0","1","2","3","4","5","6","7","8","9">>
digitValue(c) == CHOOSE d \in 1..10 : DigitOrder[d] = c

\* a < b for two digit strings without leading zero.
RECURSIVE digitsLess(_, _, _)
digitsLess(a, b, i) ==
    IF Len(a) # Len(b) THEN Len(a) < Len(b)
    ELSE IF i > Len(a) THEN FALSE
    ELSE IF a[i] # b[i] THEN digitValue(a[i]) < digitValue(b[i])
    ELSE digitsLess(a, b, i + 1)

\* 2^32 - 1: a canonical numeric string below it is an integer index.
IndexLimit == <<"4","2","9","4","9","6","7","2","9","5">>

\* A property key the engine orders as an integer index.  Tags have more than
\* three characters, so "0" itself does not occur.
isIntegerIndex(w) ==
    /\ \A i \in 1..Len(w) : w[i] \in Digits
    /\ w[1] # "0"
    /\ digitsLess(w, IndexLimit, 1)

\* Object.entries(tags): own keys in property order, integer indices first in
\* ascending numeric order, then the other keys in the order they were added.
keyBefore(ws, a, b) ==
    IF isIntegerIndex(a) /\ isIntegerIndex(b) THEN digitsLess(a, b, 1)
    ELSE IF isIntegerIndex(a) THEN TRUE
    ELSE IF isIntegerIndex(b) THEN FALSE
    ELSE firstIndex(ws, a) < firstIndex(ws, b)

objectKeys(ws) ==
    LET keys == Range(ws)
        pos(w) == Cardinality({v \in keys : keyBefore(ws, v, w)}) + 1
    IN  [p \in 1..Cardinality(keys) |-> CHOOSE w \in keys : pos(w) = p]

\* Variant: a sort that puts elements of equal key in reverse order.
sortDescendingReversingTies(s, keys) ==
    LET pos(i) == Cardinality({j \in 1..Len(s) : keys[j] > keys[i]})
                  + Cardinality({j \in (i + 1)..Len(s) : keys[j] = keys[i]}) + 1
    IN  [p \in 1..Len(s) |-> s[CHOOSE i \in 1..Len(s) : pos(i) = p]]

\* Array.prototype.sort with the comparator (a, b) => key(b) - key(a): stable,
\* descending by key, keys[i] being the key of s[i].  The element at i lands
\* behind every element with a larger key and every earlier element with the
\* same key.
sortDescending(s, keys) ==
    LET pos(i) == Cardinality({j \in 1..Len(s) : keys[j] > keys[i]})
                  + Cardinality({j \in 1..(i - 1) : keys[j] = keys[i]}) + 1
    IN  [p \in 1..Len(s) |-> s[CHOOSE i \in 1..Len(s) : pos(i) = p]]

\* Array.prototype.slice(0, end): a negative end counts from the end.
slice(s, end) ==
    IF end >= 0 THEN SubSeq(s, 1, Min(end, Len(s)))
    ELSE SubSeq(s, 1, Max(0, Len(s) + end))

extractContextTags(content) ==
    LET ws == tagWords(content)
        entries == objectKeys(ws)
        counts == [i \in 1..Len(entries) |-> tagCount(ws, entries[i])]
    IN  slice(sortDescending(entries, counts), 5)

----------------------------------------------------------------------------
(* Store *)

currentUserId == "lyra-user-001"

SourceTypes == {"user_input", "system_generated", "tool_output", "conversation"}
WriteMethods == {"manual", "automatic", "importance_detected"}

\* What a method returned: a record, null, a list, the statistics, a number,
\* or nothing.
Value(kind, value) == [kind |-> kind, value |-> value]
Null == Value("null", 0)
Void == Value("void", 0)

\* `mem_${Date.now()}_${Math.random().toString(36).substr(2, 9)}`
newId(t, random) == [time |-> t, random |-> random]

\* Variant: a record that starts with no use counted.
newMemoryUnused(title, content, emotion, sourceType, writeMethod, random) ==
    [ id               |-> newId(now, random),
      user_id          |-> currentUserId,
      title            |-> title,
      content          |-> content,
      importance_score |-> detectImportance(content),
      emotion_flag     |-> emotion,
      date_created     |-> now,
      last_accessed    |-> now,
      usage_count      |-> 0,
      decay_rate       |-> 5,
      context_tags     |-> extractContextTags(content),
      source_type      |-> sourceType,
      write_method     |-> writeMethod,
      dream_state      |-> FALSE ]

\* Variant: last_accessed starting at the epoch, not at the creation time.
newMemoryEpoch(title, content, emotion, sourceType, writeMethod, random) ==
    [ id               |-> newId(now, random),
      user_id          |-> currentUserId,
      title            |-> title,
      content          |-> content,
      importance_score |-> detectImportance(content),
      emotion_flag     |-> emotion,
      date_created     |-> now,
      last_accessed    |-> 0,
      usage_count      |-> 1,
      decay_rate       |-> 5,
      context_tags     |-> extractContextTags(content),
      source_type      |-> sourceType,
      write_method     |-> writeMethod,
      dream_state      |-> FALSE ]

\* The object literal of createMemory; decay_rate 0.05 is held in hundredths.
newMemory(title, content, emotion, sourceType, writeMethod, random) ==
    [ id               |-> newId(now, random),
      user_id          |-> currentUserId,
      title            |-> title,
      content          |-> content,
      importance_score |-> detectImportance(content),
      emotion_flag     |-> emotion,
      date_created     |-> now,
      last_accessed    |-> now,
      usage_count      |-> 1,
      decay_rate       |-> 5,
      context_tags     |-> extractContextTags(content),
      source_type      |-> sourceType,
      write_method     |-> writeMethod,
      dream_state      |-> FALSE ]

\* Variant: the call suspends after building its record and, resumed, writes
\* back the collection as it was before the call that ran in between.
CreateMemorySuspended(title, content, emotion, sourceType, writeMethod, random) ==
    LET memory == newMemory(title, content, emotion, sourceType, writeMethod, random)
    IN  /\ memories' = Append(before, memory)
        /\ op' = "createMemory"
        /\ arg' = [title |-> title, content |-> content, emotion |-> emotion,
                   sourceType |-> sourceType, writeMethod |-> writeMethod]
        /\ ret' = Value("record", memory)
        /\ before' = memories
        /\ UNCHANGED <<now, passes>>

\* Variant: the new record goes to the front of the collection.
CreateMemoryUnshift(title, content, emotion, sourceType, writeMethod, random) ==
    LET memory == newMemory(title, content, emotion, sourceType, writeMethod, random)
    IN  /\ memories' = <<memory>> \o memories
        /\ op' = "createMemory"
        /\ arg' = [title |-> title, content |-> content, emotion |-> emotion,
                   sourceType |-> sourceType, writeMethod |-> writeMethod]
        /\ ret' = Value("record", memory)
        /\ before' = memories
        /\ UNCHANGED <<now, passes>>

\* createMemory has no await: it runs to its return in one step.  It checks
\* none of its arguments.
CreateMemory(title, content, emotion, sourceType, writeMethod, random) ==
    LET memory == newMemory(title, content, emotion, sourceType, writeMethod, random)
    IN  /\ memories' = Append(memories, memory)
        /\ op' = "createMemory"
        /\ arg' = [title |-> title, content |-> content, emotion |-> emotion,
                   sourceType |-> sourceType, writeMethod |-> writeMethod]
        /\ ret' = Value("record", memory)
        /\ before' = memories
        /\ UNCHANGED <<now, passes>>

\* Variant: a search that falls back to the first record.
findOrFirst(ms, memoryId) ==
    IF \E i \in 1..Len(ms) : ms[i].id = memoryId
    THEN CHOOSE i \in 1..Len(ms) :
            ms[i].id = memoryId /\ \A j \in 1..(i - 1) : ms[j].id # memoryId
    ELSE IF Len(ms) > 0 THEN 1 ELSE 0

\* The index this.memories.find(m => m.id === memoryId) stops at, 0 for none.
find(ms, memoryId) ==
    IF \E i \in 1..Len(ms) : ms[i].id = memoryId
    THEN CHOOSE i \in 1..Len(ms) :
            ms[i].id = memoryId /\ \A j \in 1..(i - 1) : ms[j].id # memoryId
    ELSE 0

\* Variant: an access that leaves last_accessed as it was.
strengthenNoTouch(memory) ==
    [memory EXCEPT !.usage_count = @ + 1,
                   !.importance_score = Min(One, @ + Frac(5))]

\* The three assignments of accessMemory.
\* Variant: last_accessed put back to the time of creation.
strengthenFromCreation(memory) ==
    [memory EXCEPT !.usage_count = @ + 1,
                   !.last_accessed = memory.date_created,
                   !.importance_score = Min(One, @ + Frac(5))]

\* Variant: an accessed record is to be consolidated anew.
strengthenUnmarking(memory) ==
    [memory EXCEPT !.usage_count = @ + 1,
                   !.last_accessed = now,
                   !.importance_score = Min(One, @ + Frac(5)),
                   !.dream_state = FALSE]

\* Variant: an access moves the score half of the way that is left to 1.
strengthenHalfway(memory) ==
    [memory EXCEPT !.usage_count = @ + 1,
                   !.last_accessed = now,
                   !.importance_score = Min(One, @ + (One - @) \div 2)]

strengthen(memory) ==
    [memory EXCEPT !.usage_count = @ + 1,
                   !.last_accessed = now,
                   !.importance_score = Min(One, @ + Frac(5))]

AccessMemory(memoryId) ==
    LET i == find(memories, memoryId)
    IN  /\ op' = "accessMemory"
        /\ arg' = [memoryId |-> memoryId]
        /\ before' = memories
        /\ UNCHANGED <<now, passes>>
        /\ IF i = 0
           THEN /\ ret' = Null
                /\ UNCHANGED memories
           ELSE /\ memories' = [memories EXCEPT ![i] = strengthen(memories[i])]
                /\ ret' = Value("record", strengthen(memories[i]))

\* Variant: the pass stores the decayed importance as the new score.
consolidatePersistingDecay(memory) ==
    [memory EXCEPT !.importance_score =
                       IF memory.usage_count > 3
                       THEN Min(One, calculateDecayAt(memory, now) + Frac(2))
                       ELSE calculateDecayAt(memory, now),
                   !.dream_state = TRUE]

\* Variant: a consolidated record decays at half the rate from then on.
consolidateSlowingDecay(memory) ==
    [memory EXCEPT !.importance_score =
                       IF memory.usage_count > 3 THEN Min(One, @ + Frac(2)) ELSE @,
                   !.decay_rate = @ \div 2,
                   !.dream_state = TRUE]

\* Variant: a record already marked by an earlier pass is not boosted again.
consolidateOnce(memory) ==
    [memory EXCEPT !.importance_score =
                       IF memory.usage_count > 3 /\ ~memory.dream_state
                       THEN Min(One, @ + Frac(2)) ELSE @,
                   !.dream_state = TRUE]

\* Variant: the boost also goes to a record used exactly 3 times.
consolidateFromThree(memory) ==
    [memory EXCEPT !.importance_score =
                       IF memory.usage_count >= 3 THEN Min(One, @ + Frac(2)) ELSE @,
                   !.dream_state = TRUE]

consolidate(memory) ==
    [memory EXCEPT !.importance_score =
                       IF memory.usage_count > 3 THEN Min(One, @ + Frac(2)) ELSE @,
                   !.dream_state = TRUE]

\* Variant: the pass also drops the records whose importance has decayed to 0.
DreamStateProcessingPruning ==
    /\ memories' = SelectSeq([i \in 1..Len(memories) |-> consolidate(memories[i])],
                             LAMBDA m : calculateDecayAt(m, now) > 0)
    /\ op' = "dreamStateProcessing"
    /\ arg' = << >>
    /\ ret' = Void
    /\ before' = memories
    /\ passes' = passes + 1
    /\ UNCHANGED now

DreamStateProcessing ==
    /\ memories' = [i \in 1..Len(memories) |-> consolidate(memories[i])]
    /\ op' = "dreamStateProcessing"
    /\ arg' = << >>
    /\ ret' = Void
    /\ before' = memories
    /\ passes' = passes + 1
    /\ UNCHANGED now

----------------------------------------------------------------------------
(* Query engine *)

\* calculateDecay(memory): Date.now() is read at the call.
calculateDecay(memory) == calculateDecayAt(memory, now)

\* { ...memory, current_importance: this.calculateDecay(memory) }
withCurrentImportance(memory) ==
    memory @@ ("current_importance" :> calculateDecay(memory))

\* A query is a function on the fields it gives; a field it does not give is
\* undefined.  `query.f && ...` skips the test when f is undefined, 0 or "".
given(query, f) == f \in DOMAIN query

\* Variant: the content test without toLowerCase on either side.
passesFilterCaseSensitive(query, memory) ==
    /\ ~ ( /\ given(query, "min_importance")
           /\ query.min_importance # 0
           /\ memory.current_importance < query.min_importance )
    /\ ~ ( /\ given(query, "emotion")
           /\ query.emotion # ""
           /\ memory.emotion_flag # query.emotion )
    /\ ~ ( /\ given(query, "content")
           /\ query.content # << >>
           /\ ~ includes(memory.content, query.content) )
    /\ ~ ( /\ given(query, "context_tags")
           /\ ~ \E k \in 1..Len(query.context_tags) :
                    query.context_tags[k] \in Range(memory.context_tags) )

passesFilter(query, memory) ==
    /\ ~ ( /\ given(query, "min_importance")
           /\ query.min_importance # 0
           /\ memory.current_importance < query.min_importance )
    /\ ~ ( /\ given(query, "emotion")
           /\ query.emotion # ""
           /\ memory.emotion_flag # query.emotion )
    /\ ~ ( /\ given(query, "content")
           /\ query.content # << >>
           /\ ~ includes(toLowerCase(memory.content), toLowerCase(query.content)) )
    /\ ~ ( /\ given(query, "context_tags")
           /\ ~ \E k \in 1..Len(query.context_tags) :
                    query.context_tags[k] \in Range(memory.context_tags) )

\* query.limit || 10
limitOrDefault(query) ==
    IF given(query, "limit") /\ query.limit # 0 THEN query.limit ELSE 10

\* Variant: the comparator the other way round, a - b.
retrievedAscending(ms, query) ==
    LET mapped   == [i \in 1..Len(ms) |-> withCurrentImportance(ms[i])]
        filtered == SelectSeq(mapped, LAMBDA m : passesFilter(query, m))
        keys == [i \in 1..Len(filtered) |-> 0 - filtered[i].current_importance]
    IN  slice(sortDescending(filtered, keys), limitOrDefault(query))

retrieved(ms, query) ==
    LET mapped   == [i \in 1..Len(ms) |-> withCurrentImportance(ms[i])]
        filtered == SelectSeq(mapped, LAMBDA m : passesFilter(query, m))
        keys == [i \in 1..Len(filtered) |-> filtered[i].current_importance]
    IN  slice(sortDescending(filtered, keys), limitOrDefault(query))

\* Variant: this.memories itself sorted, without the map and filter before.
RetrieveMemoriesInPlace(query) ==
    /\ op' = "retrieveMemories"
    /\ arg' = [query |-> query]
    /\ ret' = Value("list", retrieved(memories, query))
    /\ before' = memories
    /\ memories' = sortDescending(memories,
                        [i \in 1..Len(memories) |-> calculateDecay(memories[i])])
    /\ UNCHANGED <<now, passes>>

\* map, filter and slice build new arrays and sort orders the array filter
\* built: this.memories and its records are only read.
RetrieveMemories(query) ==
    /\ op' = "retrieveMemories"
    /\ arg' = [query |-> query]
    /\ ret' = Value("list", retrieved(memories, query))
    /\ before' = memories
    /\ UNCHANGED <<memories, now, passes>>

RECURSIVE sumDecay(_, _)
sumDecay(ms, i) == IF i > Len(ms) THEN 0 ELSE calculateDecay(ms[i]) + sumDecay(ms, i + 1)

\* Variant: the quotient without its || 0, which for no records is 0 / 0.
averageImportanceNoDefault(ms) == [num |-> sumDecay(ms, 1), den |-> Len(ms)]

\* sum / this.memories.length || 0 as the exact fraction; 0 / 0 is NaN and
\* NaN || 0 is 0.
averageImportance(ms) ==
    IF Len(ms) = 0 \/ sumDecay(ms, 1) = 0
    THEN [num |-> 0, den |-> 1]
    ELSE [num |-> sumDecay(ms, 1), den |-> Len(ms)]

\* Variant: a record at exactly 0.1 taken as active.
memoryStatsInclusive(ms) ==
    LET activeMemories == SelectSeq(ms, LAMBDA m : calculateDecay(m) >= Frac(10))
        flags == {ms[i].emotion_flag : i \in 1..Len(ms)}
    IN  [ total_memories   |-> Len(ms),
          active_memories  |-> Len(activeMemories),
          decayed_memories |-> Len(ms) - Len(activeMemories),
          average_importance |-> averageImportance(ms),
          emotional_distribution |->
              [e \in flags |-> Cardinality({i \in 1..Len(ms) : ms[i].emotion_flag = e})],
          recent_activity  |->
              Cardinality({i \in 1..Len(ms) : now - ms[i].last_accessed < TicksPerDay}) ]

\* Variant: an access exactly 24 hours back taken as recent.
memoryStatsRecentInclusive(ms) ==
    LET activeMemories == SelectSeq(ms, LAMBDA m : calculateDecay(m) > Frac(10))
        flags == {ms[i].emotion_flag : i \in 1..Len(ms)}
    IN  [ total_memories   |-> Len(ms),
          active_memories  |-> Len(activeMemories),
          decayed_memories |-> Len(ms) - Len(activeMemories),
          average_importance |-> averageImportance(ms),
          emotional_distribution |->
              [e \in flags |-> Cardinality({i \in 1..Len(ms) : ms[i].emotion_flag = e})],
          recent_activity  |->
              Cardinality({i \in 1..Len(ms) : now - ms[i].last_accessed <= TicksPerDay}) ]

\* Variant: acc[m.emotion_flag] = 1, a flag counted once however many carry it.
memoryStatsFlagsOnce(ms) ==
    LET activeMemories == SelectSeq(ms, LAMBDA m : calculateDecay(m) > Frac(10))
        flags == {ms[i].emotion_flag : i \in 1..Len(ms)}
    IN  [ total_memories   |-> Len(ms),
          active_memories  |-> Len(activeMemories),
          decayed_memories |-> Len(ms) - Len(activeMemories),
          average_importance |-> averageImportance(ms),
          emotional_distribution |->
              [e \in flags |-> 1],
          recent_activity  |->
              Cardinality({i \in 1..Len(ms) : now - ms[i].last_accessed < TicksPerDay}) ]

memoryStats(ms) ==
    LET activeMemories == SelectSeq(ms, LAMBDA m : calculateDecay(m) > Frac(10))
        flags == {ms[i].emotion_flag : i \in 1..Len(ms)}
    IN  [ total_memories   |-> Len(ms),
          active_memories  |-> Len(activeMemories),
          decayed_memories |-> Len(ms) - Len(activeMemories),
          average_importance |-> averageImportance(ms),
          emotional_distribution |->
              [e \in flags |-> Cardinality({i \in 1..Len(ms) : ms[i].emotion_flag = e})],
          recent_activity  |->
              Cardinality({i \in 1..Len(ms) : now - ms[i].last_accessed < TicksPerDay}) ]

\* getMemoryStats with the clock readings told apart.  Date.now() is read
\* inside calculateDecay, once for each record the filter tests and once more
\* for each record the reduce adds, and once for each record of the
\* recent_activity filter: the clock may have advanced from one pass to the
\* next.
RECURSIVE sumDecayAt(_, _, _)
sumDecayAt(ms, i, t) ==
    IF i > Len(ms) THEN 0 ELSE calculateDecayAt(ms[i], t) + sumDecayAt(ms, i + 1, t)

memoryStatsAcross(ms, tActive, tAverage, tRecent) ==
    LET activeMemories == SelectSeq(ms, LAMBDA m : calculateDecayAt(m, tActive) > Frac(10))
        flags == {ms[i].emotion_flag : i \in 1..Len(ms)}
    IN  [ total_memories   |-> Len(ms),
          active_memories  |-> Len(activeMemories),
          decayed_memories |-> Len(ms) - Len(activeMemories),
          average_importance |->
              IF Len(ms) = 0 \/ sumDecayAt(ms, 1, tAverage) = 0
              THEN [num |-> 0, den |-> 1]
              ELSE [num |-> sumDecayAt(ms, 1, tAverage), den |-> Len(ms)],
          emotional_distribution |->
              [e \in flags |-> Cardinality({i \in 1..Len(ms) : ms[i].emotion_flag = e})],
          recent_activity  |->
              Cardinality({i \in 1..Len(ms) : tRecent - ms[i].last_accessed < TicksPerDay}) ]

\* A getMemoryStats call during which the clock advances by d1 between the
\* filter for active_memories and the reduce for average_importance, and by
\* d2 between the reduce and the filter for recent_activity.
GetMemoryStatsAcross(d1, d2) ==
    /\ op' = "getMemoryStats"
    /\ arg' = << >>
    /\ ret' = Value("stats", memoryStatsAcross(memories, now, now + d1, now + d1 + d2))
    /\ before' = memories
    /\ now' = now + d1 + d2
    /\ UNCHANGED <<memories, passes>>

GetMemoryStats ==
    /\ op' = "getMemoryStats"
    /\ arg' = << >>
    /\ ret' = Value("stats", memoryStats(memories))
    /\ before' = memories
    /\ UNCHANGED <<memories, now, passes>>

GetAllMemories ==
    /\ op' = "getAllMemories"
    /\ arg' = << >>
    /\ ret' = Value("list", [i \in 1..Len(memories) |-> withCurrentImportance(memories[i])])
    /\ before' = memories
    /\ UNCHANGED <<memories, now, passes>>

\* A call of the public method calculateDecay on a record.
CalculateDecay(memory) ==
    /\ op' = "calculateDecay"
    /\ arg' = [memory |-> memory]
    /\ ret' = Value("number", calculateDecay(memory))
    /\ before' = memories
    /\ UNCHANGED <<memories, now, passes>>

\* A call of the public method getEmotionalWeight; what it returns for an
\* inherited key is no number.
GetEmotionalWeight(emotion) ==
    /\ op' = "getEmotionalWeight"
    /\ arg' = [emotion |-> emotion]
    /\ ret' = Value("number", getEmotionalWeight(emotion))
    /\ before' = memories
    /\ UNCHANGED <<memories, now, passes>>

\* The clock moves on between two calls.
Tick(d) ==
    /\ now' = now + d
    /\ op' = "tick"
    /\ arg' = << >>
    /\ ret' = Void
    /\ before' = memories
    /\ UNCHANGED <<memories, passes>>

----------------------------------------------------------------------------
(* The store under its public methods *)

TextPlain == <<"w","a","l","k"," ","p","a","r","k">>
TextHot == <<"U","R","G","E","N","T"," ","s","e","c","r","e","t"," ","k","e","y"," ","l","o","v","e">>

\* The createMemory calls made: title, content, emotion, sourceType,
\* writeMethod.
CreateCalls ==
    { << <<"T">>, TextPlain, "neutral", "user_input",   "manual" >>,
      << <<"T">>, TextHot,   "anxious", "conversation", "importance_detected" >>,
      << << >>,   TextPlain, "neutral", "user_input",   "manual" >>,
      << <<"T">>, << >>,     "neutral", "tool_output",  "automatic" >> }
Randoms == 1..MaxRandom
MissingId == newId(0, 0)
Queries ==
    { << >>,
      [limit |-> 0], [limit |-> -1], [limit |-> 1], [limit |-> 2] }

Init ==
    /\ memories = << >>
    /\ now = 0
    /\ op = "new"
    /\ arg = << >>
    /\ ret = Void
    /\ before = << >>
    /\ passes = 0

Next ==
    \/ \E call \in CreateCalls, random \in Randoms :
          /\ Len(memories) < MaxMemories
          /\ CreateMemory(call[1], call[2], call[3], call[4], call[5], random)
    \/ \E i \in 1..Len(memories) :
          /\ memories[find(memories, memories[i].id)].usage_count < MaxUsage
          /\ AccessMemory(memories[i].id)
    \/ AccessMemory(MissingId)
    \/ passes < MaxPasses /\ DreamStateProcessing
    \/ \E query \in Queries : RetrieveMemories(query)
    \/ GetMemoryStats
    \/ GetAllMemories
    \/ \E i \in 1..Len(memories) : CalculateDecay(memories[i])
    \/ now < MaxNow /\ Tick(1)

Spec == Init /\ [][Next]_vars

----------------------------------------------------------------------------
(* The scoring engine on its own: calculateDecay and getEmotionalWeight      *)
(* called on records and emotions of every shape.                            *)

MaxProbeUsage == 10   \* usage_count of the records decay is computed for
MaxProbeNow == 20     \* last clock reading, in ticks

ProbeScores == {0, Frac(10), Frac(80), One}
ProbeEmotions == EmotionFlags \cup {"calm", "", "constructor"}

\* The fields calculateDecay reads.
ProbeRecords ==
    [ importance_score : ProbeScores,
      emotion_flag     : EmotionFlags,
      usage_count      : 0..MaxProbeUsage,
      last_accessed    : {0} ]

NextFn ==
    \/ \E memory \in ProbeRecords : CalculateDecay(memory)
    \/ \E emotion \in ProbeEmotions : GetEmotionalWeight(emotion)
    \/ now < MaxProbeNow /\ Tick(1)

SpecFn == Init /\ [][NextFn]_vars

----------------------------------------------------------------------------
(* A store of more records than the default limit of retrieveMemories        *)

\* A store left alone for weeks at a time: the clock advances in jumps.
JumpTicks == 25       \* ticks in one jump of the clock
MaxJumps == 2         \* jumps of the clock
MaxLongRecords == 2   \* records created
MaxLongUsage == 2     \* usage_count up to which records are accessed
LongCalls == {call \in CreateCalls : Len(call[1]) > 0 /\ Len(call[2]) > 0}
NextLong ==
    \/ \E call \in LongCalls :
          /\ Len(memories) < MaxLongRecords
          /\ CreateMemory(call[1], call[2], call[3], call[4], call[5], 1)
    \/ \E i \in 1..Len(memories) :
          /\ memories[find(memories, memories[i].id)].usage_count < MaxLongUsage
          /\ AccessMemory(memories[i].id)
    \/ passes < MaxPasses /\ DreamStateProcessing
    \/ RetrieveMemories(<< >>)
    \/ GetMemoryStats
    \/ now < JumpTicks * MaxJumps /\ Tick(JumpTicks)
SpecLong == Init /\ [][NextLong]_vars

\* Queries with filters, one at a time and combined, over a store of records
\* that differ in emotion, content, tags and decayed importance.
MaxQueryRecords == 2  \* records created
MaxQueryUsage == 2    \* usage_count up to which records are accessed
FilterQueries ==
    { << >>,
      [min_importance |-> 0],
      [min_importance |-> Frac(29)],
      [min_importance |-> Frac(30)],
      [emotion |-> "anxious"],
      [emotion |-> "happy"],
      [content |-> << >>],
      [content |-> <<"P","A","R","K">>],
      [content |-> <<"u","r","g","e","n","t"," ","s">>],
      [context_tags |-> << >>],
      [context_tags |-> <<<<"p","a","r","k">>, <<"s","e","c","r","e","t">>>>],
      [context_tags |-> <<<<"U","R","G","E","N","T">>>>],
      [min_importance |-> Frac(29), emotion |-> "neutral"],
      [min_importance |-> Frac(29), content |-> <<"a">>],
      [emotion |-> "anxious", content |-> <<"K","e","y">>, context_tags |-> <<<<"l","o","v","e">>>>],
      [emotion |-> "neutral", context_tags |-> <<<<"l","o","v","e">>, <<"w","a","l","k">>>>] }
NextQuery ==
    \/ \E call \in LongCalls :
          /\ Len(memories) < MaxQueryRecords
          /\ CreateMemory(call[1], call[2], call[3], call[4], call[5], 1)
    \/ \E i \in 1..Len(memories) :
          /\ memories[find(memories, memories[i].id)].usage_count < MaxQueryUsage
          /\ AccessMemory(memories[i].id)
    \/ \E query \in FilterQueries : RetrieveMemories(query)
    \/ now < MaxNow /\ Tick(1)
SpecQuery == Init /\ [][NextQuery]_vars

\* Creations whose Math.random() suffix is one of several values, and
\* accesses by id.
MaxIdRecords == 3     \* records created
MaxIdRandom == 2      \* distinct Math.random() suffixes
MaxIdUsage == 2       \* usage_count up to which records are accessed
NextIds ==
    \/ \E random \in 1..MaxIdRandom :
          /\ Len(memories) < MaxIdRecords
          /\ CreateMemory(<<"T">>, TextPlain, "neutral", "user_input", "manual", random)
    \/ \E i \in 1..Len(memories) :
          /\ memories[find(memories, memories[i].id)].usage_count < MaxIdUsage
          /\ AccessMemory(memories[i].id)
    \/ now < MaxNow /\ Tick(1)
SpecIds == Init /\ [][NextIds]_vars

\* Contents scored by detectImportance: sentences of a few words, among them
\* keywords of both lists, a keyword in capitals, a word holding a keyword of
\* each list ("danger"), a word holding a keyword inside it ("monkey") and a
\* word of digits;
\* contents at both sides of the two length thresholds; and a sentence
\* holding the keywords urgent, remember and password among other words.
MaxWords == 3         \* words in a sentence
Vocabulary ==
    { <<"U","R","G","E","N","T">>,
      <<"r","e","m","e","m","b","e","r">>,
      <<"p","a","s","s","w","o","r","d">>,
      <<"d","a","n","g","e","r">>,
      <<"m","o","n","k","e","y">>,
      <<"l","o","v","e">>,
      <<"w","a","l","k">>,
      <<"2","0","2","4">> }
RECURSIVE Sentences(_)
Sentences(n) ==
    IF n = 0 THEN {<< >>}
    ELSE LET shorter == Sentences(n - 1)
         IN  shorter \cup {(IF s = << >> THEN s ELSE Append(s, " ")) \o w :
                               s \in shorter, w \in Vocabulary}
Padding(n) == [i \in 1..n |-> "x"]
LongTexts ==
    {Padding(n) : n \in {200, 201, 500, 501}}
    \cup {<<"u","r","g","e","n","t"," ","l","o","v","e"," ">> \o Padding(n) : n \in {188, 189, 488, 489}}
TextScenario == <<"T","h","i","s"," ","i","s"," ","u","r","g","e","n","t",","," ","r","e","m","e","m","b","e","r"," ","t","h","e"," ","p","a","s","s","w","o","r","d","!">>
Texts == Sentences(MaxWords) \cup LongTexts \cup {TextScenario}

\* A call of the public method detectImportance.
DetectImportance(content) ==
    /\ op' = "detectImportance"
    /\ arg' = [content |-> content]
    /\ ret' = Value("number", detectImportance(content))
    /\ before' = memories
    /\ UNCHANGED <<memories, now, passes>>

MaxTextRecords == 1   \* records created
\* detectImportance reads nothing but its argument: one call after another
\* would score the same contents again, so a call follows a call of another
\* kind only.
NextText ==
    \/ \E content \in Texts :
          /\ op # "detectImportance"
          /\ DetectImportance(content)
    \/ /\ Len(memories) < MaxTextRecords
       /\ CreateMemory(<<"T">>, TextScenario, "neutral", "user_input", "manual", 1)
SpecText == Init /\ [][NextText]_vars

\* A call of the public method extractContextTags.
ExtractContextTags(content) ==
    /\ op' = "extractContextTags"
    /\ arg' = [content |-> content]
    /\ ret' = Value("list", extractContextTags(content))
    /\ before' = memories
    /\ UNCHANGED <<memories, now, passes>>

\* extractContextTags reads nothing but its argument; it is called on each
\* content once.
\* Contents with stop words, words of 3 characters and fewer, capitals,
\* punctuation, repeated words and more than 5 words that qualify.
TagTexts ==
    { <<"T","h","e"," ","c","a","t"," ","w","a","s"," ","w","i","t","h"," ","U","R","G","E","N","T"," ","W","a","l","k",","," ","w","a","l","k","!">>,
      <<"w","o","u","l","d"," ","s","h","o","u","l","d"," ","c","o","u","l","d"," ","h","a","v","e"," ","b","e","e","n">>,
      <<"o","n","e"," ","t","w","o"," ","t","h","r","e","e"," ","f","o","u","r"," ","f","i","v","e"," ","s","i","x"," ","s","e","v","e","n"," ","e","i","g","h","t"," ","n","i","n","e">>,
      <<"s","n","a","k","e","_","c","a","s","e"," ","x","2"," ","n","o","t","e","-","b","o","o","k"," ","1","2","3","4","5"," ","i","t","'","s">>,
      <<"k","e","y"," ","k","e","y"," ","k","e","y"," ","p","a","r","k"," ","p","a","r","k"," ","d","o","o","r">> }
NextTags ==
    \E content \in Sentences(MaxWords) \cup TagTexts :
        /\ op # "extractContextTags"
        /\ ExtractContextTags(content)
SpecTags == Init /\ [][NextTags]_vars

MaxCallerRecords == 2 \* records created
MaxCallerUsage == 2   \* usage_count up to which records are accessed
MaxCallerTags == 3    \* context_tags up to which a caller pushes a tag

\* What a caller does with what a call handed back.  createMemory returns
\* the object it pushed and accessMemory the object find gave it: the caller
\* holds the stored record itself.  retrieveMemories and getAllMemories
\* return { ...memory, current_importance }: a new object for each record,
\* whose context_tags is the array of the stored record, not a copy of it.

\* The places in this.memories of the records a retrieveMemories result was
\* spread from, in the order of the result.
retrievedFrom(ms, query) ==
    LET mapped   == [i \in 1..Len(ms) |-> withCurrentImportance(ms[i])]
        filtered == SelectSeq([i \in 1..Len(ms) |-> i],
                              LAMBDA i : passesFilter(query, mapped[i]))
        keys == [k \in 1..Len(filtered) |-> mapped[filtered[k]].current_importance]
    IN  slice(sortDescending(filtered, keys), limitOrDefault(query))

\* The places in this.memories of the records the last call returned or
\* spread.
returnedFrom ==
    IF op = "createMemory" THEN <<Len(memories)>>
    ELSE IF op = "accessMemory" THEN <<find(memories, arg.memoryId)>>
    ELSE IF op = "retrieveMemories" THEN retrievedFrom(memories, arg.query)
    ELSE IF op = "getAllMemories" THEN [i \in 1..Len(memories) |-> i]
    ELSE << >>

\* returned[field] = value on the record createMemory or accessMemory
\* returned.
WriteReturned(field, value) ==
    /\ op \in {"createMemory", "accessMemory"}
    /\ ret.kind = "record"
    /\ memories' = [memories EXCEPT ![returnedFrom[1]][field] = value]
    /\ ret' = Value("record", [ret.value EXCEPT ![field] = value])
    /\ op' = "writeReturned"
    /\ arg' = [field |-> field, value |-> value]
    /\ before' = memories
    /\ UNCHANGED <<now, passes>>

\* result[k][field] = value on a result of retrieveMemories or getAllMemories.
WriteCopy(k, field, value) ==
    /\ op \in {"retrieveMemories", "getAllMemories"}
    /\ k \in 1..Len(ret.value)
    /\ ret' = Value("list", [ret.value EXCEPT ![k][field] = value])
    /\ op' = "writeCopy"
    /\ arg' = [field |-> field, value |-> value]
    /\ before' = memories
    /\ UNCHANGED <<memories, now, passes>>

\* result[k].context_tags.push(tag) on a result of retrieveMemories or
\* getAllMemories: the array is the stored record's, and that of every other
\* object spread from the same record.
PushCopyTag(k, tag) ==
    /\ op \in {"retrieveMemories", "getAllMemories"}
    /\ k \in 1..Len(ret.value)
    /\ LET from == returnedFrom
       IN  /\ Len(memories[from[k]].context_tags) < MaxCallerTags
           /\ memories' = [memories EXCEPT ![from[k]].context_tags = Append(@, tag)]
           /\ ret' = Value("list",
                  [l \in 1..Len(ret.value) |->
                      IF from[l] = from[k]
                      THEN [ret.value[l] EXCEPT !.context_tags = Append(@, tag)]
                      ELSE ret.value[l]])
    /\ op' = "pushCopyTag"
    /\ arg' = [tag |-> tag]
    /\ before' = memories
    /\ UNCHANGED <<now, passes>>

\* The writes callers make: importance_score = 5, usage_count = 0.
CallerWrites == {<<"importance_score", 5 * One>>, <<"usage_count", 0>>}
NextCaller ==
    \/ \E call \in LongCalls :
          /\ Len(memories) < MaxCallerRecords
          /\ CreateMemory(call[1], call[2], call[3], call[4], call[5], 1)
    \/ \E i \in 1..Len(memories) :
          /\ memories[find(memories, memories[i].id)].usage_count \in 1..(MaxCallerUsage - 1)
          /\ AccessMemory(memories[i].id)
    \/ RetrieveMemories(<< >>)
    \/ GetAllMemories
    \/ \E write \in CallerWrites : WriteReturned(write[1], write[2])
    \/ \E k \in 1..MaxCallerRecords, write \in CallerWrites : WriteCopy(k, write[1], write[2])
    \/ \E k \in 1..MaxCallerRecords : PushCopyTag(k, <<"x">>)
    \/ now < MaxNow /\ Tick(1)
SpecCaller == Init /\ [][NextCaller]_vars

\* A clock that advances while a call runs.
MaxClockNow == 10     \* last clock reading, in ticks
MaxClockRecords == 1  \* records created
MaxDrift == 1         \* ticks the clock advances between two passes of a call
NextClock ==
    \/ /\ Len(memories) < MaxClockRecords
       /\ CreateMemory(<<"T">>, TextPlain, "neutral", "user_input", "manual", 1)
    \/ \E d1, d2 \in 0..MaxDrift :
          /\ now + d1 + d2 <= MaxClockNow
          /\ GetMemoryStatsAcross(d1, d2)
    \/ now < MaxClockNow /\ Tick(1)
SpecClock == Init /\ [][NextClock]_vars

\* A record of the lowest creation score that is accessed again and again.
MaxAccessRecords == 1 \* records created
MaxAccessUsage == 17  \* usage_count up to which the record is accessed
AccessStored ==
    \E i \in 1..Len(memories) :
        /\ memories[find(memories, memories[i].id)].usage_count < MaxAccessUsage
        /\ AccessMemory(memories[i].id)
NextAccess ==
    \/ /\ Len(memories) < MaxAccessRecords
       /\ CreateMemory(<<"T">>, TextPlain, "neutral", "user_input", "manual", 1)
    \/ AccessStored
    \/ passes < MaxPasses /\ DreamStateProcessing
    \/ now < MaxNow /\ Tick(1)
SpecAccess == Init /\ [][NextAccess]_vars

\* The caller keeps accessing the record: an access that stays possible is
\* made.
FairAccess == SpecAccess /\ WF_vars(AccessStored)

\* A store asked for its statistics as the hours pass.
MaxRecentNow == 3     \* last clock reading, in ticks
MaxRecentRecords == 3 \* records created
MaxRecentUsage == 2   \* usage_count up to which records are accessed
NextRecent ==
    \/ \E call \in LongCalls :
          /\ Len(memories) < MaxRecentRecords
          /\ CreateMemory(call[1], call[2], call[3], call[4], call[5], 1)
    \/ \E i \in 1..Len(memories) :
          /\ memories[find(memories, memories[i].id)].usage_count < MaxRecentUsage
          /\ AccessMemory(memories[i].id)
    \/ GetMemoryStats
    \/ now < MaxRecentNow /\ Tick(1)
SpecRecent == Init /\ [][NextRecent]_vars

MaxBulk == 11         \* records created

BulkQueries == Queries \cup {[limit |-> 10], [limit |-> 12]}

NextBulk ==
    \/ /\ Len(memories) < MaxBulk
       /\ CreateMemory(<<"T">>, TextPlain, "neutral", "user_input", "manual", 1)
    \/ \E query \in BulkQueries : RetrieveMemories(query)
    \/ now < MaxNow /\ Tick(1)

SpecBulk == Init /\ [][NextBulk]_vars

----------------------------------------------------------------------------
(* Properties *)

Indices(ms) == 1..Len(ms)
Occurrences(s, x) == Cardinality({i \in Indices(s) : s[i] = x})

\* C1: every stored record has 0 <= importance_score <= 1, whatever calls
\* of createMemory, accessMemory and dreamStateProcessing came before.
C1_ScoreInUnitInterval ==
    \A i \in Indices(memories) :
        /\ memories[i].importance_score >= 0
        /\ memories[i].importance_score <= One

\* A consolidation pass has met a record used more than three times whose
\* score was already 1, and an access has met one too.
C1_Witness ==
    /\ op = "dreamStateProcessing"
    /\ \E i \in Indices(memories) :
          /\ before[i].usage_count > 3
          /\ before[i].importance_score = One
          /\ before[i].content = TextHot
          /\ memories[i].importance_score = One

\* C2: accessMemory with an id no stored record has returns null, the
\* method's not-found result, and leaves this.memories as it was.
C2_AccessUnknownId ==
    (op = "accessMemory" /\ \A i \in Indices(before) : before[i].id # arg.memoryId)
        => (ret.kind = "null" /\ memories = before)

C2_Witness ==
    /\ op = "accessMemory"
    /\ \A i \in Indices(before) : before[i].id # arg.memoryId
    /\ Len(before) = 2
    /\ ret.kind = "null"

\* C3: a successful accessMemory adds 1 to usage_count of the record found,
\* sets its last_accessed to the time of the call and its importance_score to
\* min(1, old + 0.05), returns the record as updated, and changes no other
\* field of it and no other record.
C3_AccessStrengthens ==
    (op = "accessMemory" /\ \E i \in Indices(before) : before[i].id = arg.memoryId)
        => LET i == CHOOSE k \in Indices(before) :
                        /\ before[k].id = arg.memoryId
                        /\ \A j \in 1..(k - 1) : before[j].id # arg.memoryId
           IN  /\ Len(memories) = Len(before)
               /\ memories[i].usage_count = before[i].usage_count + 1
               /\ memories[i].last_accessed = now
               /\ memories[i].importance_score
                      = Min(One, before[i].importance_score + Frac(5))
               /\ \A f \in DOMAIN before[i] \ {"usage_count", "last_accessed", "importance_score"} :
                      memories[i][f] = before[i][f]
               /\ DOMAIN memories[i] = DOMAIN before[i]
               /\ \A j \in Indices(before) \ {i} : memories[j] = before[j]
               /\ ret.kind = "record"
               /\ ret.value = memories[i]

\* An access of one of two records, later than its last one and the third
\* use of it, that raised its score without reaching 1.
C3_Witness ==
    /\ op = "accessMemory"
    /\ Len(before) = 2
    /\ before[1].id = arg.memoryId
    /\ before[2].id # arg.memoryId
    /\ before[1].last_accessed < now
    /\ before[1].importance_score + Frac(5) < One
    /\ memories[1].usage_count = 3

\* C4: createMemory with an empty title or an empty content fails with an
\* invalid-input result and appends nothing.
C4_CreateRejectsEmpty ==
    (op = "createMemory" /\ (arg.title = << >> \/ arg.content = << >>))
        => (ret.kind = "error" /\ memories = before)

\* C5: retrieveMemories with a limit of zero or less fails with an
\* invalid-input result instead of returning records.
C5_RetrieveRejectsLimit ==
    (op = "retrieveMemories" /\ given(arg.query, "limit") /\ arg.query.limit <= 0)
        => ret.kind = "error"

\* C6: for a record of any usage count and any emotion of the enumeration,
\* read at any time from its last access on, calculateDecay lies between 0 and
\* the record's importance_score; and for any emotion, known or not, and any
\* usage count the effective decay rate is not below 0.
IsNegative(x) == ~ IsNaN(x) /\ x < 0

C6_DecayWithinScore ==
    /\ op = "calculateDecay" =>
          /\ ret.value >= 0
          /\ ret.value <= arg.memory.importance_score
          /\ effectiveDecay(arg.memory.usage_count, arg.memory.emotion_flag) >= 0
    /\ op = "getEmotionalWeight" =>
          \A usage_count \in 0..MaxProbeUsage :
              ~ IsNegative(effectiveDecay(usage_count, arg.emotion))

\* The record best protected, used nine times or more and anxious, decays.
C6_Witness ==
    /\ op = "calculateDecay"
    /\ arg.memory.usage_count >= 9
    /\ arg.memory.emotion_flag = "anxious"
    /\ arg.memory.importance_score = One
    /\ now > arg.memory.last_accessed
    /\ ret.value < One

\* C7: for one record, calculateDecay does not rise with the time since
\* last_accessed: read at any earlier time, it is at least what it is now.
C7_DecayMonotone ==
    op = "calculateDecay" =>
        \A t1 \in arg.memory.last_accessed..now : \A t2 \in t1..now :
            calculateDecayAt(arg.memory, t2) <= calculateDecayAt(arg.memory, t1)

\* A record read while it decays and after it has reached 0.
C7_Witness ==
    /\ op = "calculateDecay"
    /\ ret.value = 0
    /\ arg.memory.importance_score > 0
    /\ \E t \in arg.memory.last_accessed..now :
          /\ calculateDecayAt(arg.memory, t) > 0
          /\ calculateDecayAt(arg.memory, t) < arg.memory.importance_score

\* C8: retrieveMemories, getMemoryStats and calculateDecay leave
\* this.memories as it was: the same records in the same order, every field
\* the same.
C8_ReadsLeaveStore ==
    op \in {"retrieveMemories", "getMemoryStats", "calculateDecay"}
        => memories = before

\* A retrieval that returned two records in the other order than they are
\* stored in, the older one decayed.
C8_Witness ==
    /\ op = "retrieveMemories"
    /\ Len(memories) = 2
    /\ Len(ret.value) = 2
    /\ ret.value[1].id = memories[2].id
    /\ ret.value[1].id # memories[1].id
    /\ ret.value[2].current_importance < memories[1].importance_score

\* C9: retrieveMemories without a filter and with a limit N > 0, or without
\* a limit and N = 10, returns min(N, number of records) records in an order
\* of non-increasing current importance, and they are the first of the store
\* so ordered: each is a stored record with its current importance, and every
\* stored record of a higher current importance than the last one returned is
\* among them.
C9_RetrieveTopN ==
    ( /\ op = "retrieveMemories"
      /\ DOMAIN arg.query \subseteq {"limit"}
      /\ given(arg.query, "limit") => arg.query.limit > 0 )
        => LET N == IF given(arg.query, "limit") THEN arg.query.limit ELSE 10
               r == ret.value
               copies == [i \in Indices(before) |->
                             before[i] @@ ("current_importance" :> calculateDecay(before[i]))]
           IN  /\ ret.kind = "list"
               /\ Len(r) = Min(N, Len(before))
               /\ \A k \in 1..(Len(r) - 1) :
                      r[k].current_importance >= r[k + 1].current_importance
               /\ \A k \in Indices(r) : Occurrences(r, r[k]) <= Occurrences(copies, r[k])
               /\ \A i \in Indices(copies) :
                      (Len(r) > 0 /\ copies[i].current_importance > r[Len(r)].current_importance)
                          => Occurrences(r, copies[i]) = Occurrences(copies, copies[i])

\* Eleven records of two ages retrieved without a limit: ten come back, the
\* younger ones first.
C9_Witness ==
    /\ op = "retrieveMemories"
    /\ arg.query = << >>
    /\ Len(memories) = 11
    /\ Len(ret.value) = 10
    /\ ret.value[1].current_importance > ret.value[10].current_importance
    /\ ret.value[1].date_created > memories[1].date_created

\* C10: usage_count of every stored record is at least 1: createMemory
\* stores 1 and no method lowers it.
C10_UsageAtLeastOne ==
    /\ \A i \in Indices(memories) : memories[i].usage_count >= 1
    /\ op = "createMemory" => memories[Len(memories)].usage_count = 1
    /\ \A i \in Indices(before) : memories[i].usage_count >= before[i].usage_count

C10_Witness ==
    /\ op = "dreamStateProcessing"
    /\ Len(memories) = 2
    /\ memories[1].usage_count = 1
    /\ memories[2].usage_count > 3

\* C11: with a clock that does not run backwards, last_accessed of every
\* stored record is at or after its date_created, and equals it for a record
\* never accessed, which is one whose usage_count is still 1.
C11_AccessedNotBeforeCreated ==
    \A i \in Indices(memories) :
        /\ memories[i].last_accessed >= memories[i].date_created
        /\ memories[i].usage_count = 1 =>
               memories[i].last_accessed = memories[i].date_created

\* A record accessed after the tick it was created in, beside one created
\* then and never accessed.
C11_Witness ==
    /\ Len(memories) = 2
    /\ memories[1].usage_count > 1
    /\ memories[1].last_accessed > memories[1].date_created
    /\ memories[2].usage_count = 1
    /\ memories[2].date_created > 0

\* C12: no two stored records have the same id, whatever the sequence of
\* createMemory calls, several of them at one clock reading included.
C12_IdsUnique ==
    \A i, j \in Indices(memories) :
        i # j => memories[i].id # memories[j].id

\* C13: records are never removed. The store after a call holds the records
\* it held before it, in their places; createMemory adds exactly one, and
\* accessMemory, dreamStateProcessing, retrieveMemories and getMemoryStats
\* leave the count as it was, however far a record has decayed.
C13_NeverRemoved ==
    /\ Len(memories) >= Len(before)
    /\ \A i \in Indices(before) : memories[i].id = before[i].id
    /\ op = "createMemory" => Len(memories) = Len(before) + 1
    /\ op \in {"accessMemory", "dreamStateProcessing", "retrieveMemories",
               "getMemoryStats"} => Len(memories) = Len(before)

\* A consolidation pass over a store whose first record has decayed to 0.
C13_Witness ==
    /\ op = "dreamStateProcessing"
    /\ Len(memories) = 2
    /\ calculateDecay(memories[1]) = 0
    /\ calculateDecay(memories[2]) > 0

\* C14: createMemory(title, content, emotion, sourceType, writeMethod) appends
\* exactly one record at the end of the collection, with date_created =
\* last_accessed = now, usage_count 1, decay_rate 0.05, dream_state false,
\* importance_score = detectImportance(content), context_tags =
\* extractContextTags(content) and the fields given; it returns that record and
\* leaves the records stored before, and their order, as they were.
C14_CreateAppendsOne ==
    op = "createMemory" =>
        /\ Len(memories) = Len(before) + 1
        /\ SubSeq(memories, 1, Len(before)) = before
        /\ LET memory == memories[Len(memories)]
           IN  /\ memory.date_created = now
               /\ memory.last_accessed = now
               /\ memory.usage_count = 1
               /\ memory.decay_rate = 5
               /\ memory.dream_state = FALSE
               /\ memory.importance_score = detectImportance(arg.content)
               /\ memory.context_tags = extractContextTags(arg.content)
               /\ memory.title = arg.title
               /\ memory.content = arg.content
               /\ memory.emotion_flag = arg.emotion
               /\ memory.source_type = arg.sourceType
               /\ memory.write_method = arg.writeMethod
               /\ memory.user_id = currentUserId
               /\ ret = Value("record", memory)

\* A creation with non-default sourceType and writeMethod, at a later clock
\* reading, after a record that had been accessed and consolidated.
C14_Witness ==
    /\ op = "createMemory"
    /\ now > 0
    /\ Len(before) = 1
    /\ before[1].usage_count > 1
    /\ before[1].dream_state
    /\ memories[2].source_type = "conversation"
    /\ memories[2].write_method = "importance_detected"
    /\ memories[2].importance_score = One
    /\ Len(memories[2].context_tags) > 0

\* C15: dreamStateProcessing raises importance_score to min(1, old + 0.02) for
\* exactly the records whose usage_count is greater than 3, leaves it as it
\* was for the others, sets dream_state on every record, and changes no other
\* field of any record.
C15_ConsolidateBoost ==
    op = "dreamStateProcessing" =>
        /\ Len(memories) = Len(before)
        /\ \A i \in Indices(before) :
              /\ before[i].usage_count > 3 =>
                     memories[i].importance_score =
                         Min(One, before[i].importance_score + Frac(2))
              /\ before[i].usage_count <= 3 =>
                     memories[i].importance_score = before[i].importance_score
              /\ memories[i].dream_state = TRUE
              /\ [memories[i] EXCEPT !.importance_score = before[i].importance_score,
                                     !.dream_state = before[i].dream_state] = before[i]

\* A pass over a record used 4 times, with room for the whole boost, and a
\* record used 3 times.
C15_Witness ==
    /\ op = "dreamStateProcessing"
    /\ Len(before) = 2
    /\ before[1].usage_count = 4
    /\ before[1].importance_score + Frac(2) < One
    /\ memories[1].importance_score = before[1].importance_score + Frac(2)
    /\ before[2].usage_count = 3
    /\ ~before[2].dream_state
    /\ memories[2].dream_state

\* C16: two dreamStateProcessing calls in a row raise the importance_score of
\* a record with usage_count > 3 by 0.02 each, capped at 1; dream_state is
\* true after the first call and still true after the second.
C16_ConsolidateTwice ==
    [][ (op = "dreamStateProcessing" /\ op' = "dreamStateProcessing") =>
            \A i \in Indices(before) :
                /\ memories[i].dream_state
                /\ memories'[i].dream_state
                /\ before[i].usage_count > 3 =>
                       /\ memories[i].importance_score =
                              Min(One, before[i].importance_score + Frac(2))
                       /\ memories'[i].importance_score =
                              Min(One, memories[i].importance_score + Frac(2))
       ]_vars

\* The second of two passes over a record used 4 times: its score has gone
\* from 0.45 to 0.47 in the first and to 0.49 in the second, and dream_state
\* was already set when the second began.
C16_Witness ==
    /\ op = "dreamStateProcessing"
    /\ passes = 2
    /\ Len(memories) >= 1
    /\ before[1].usage_count = 4
    /\ before[1].dream_state
    /\ before[1].importance_score = Frac(47)
    /\ memories[1].importance_score = Frac(49)
    /\ memories[1].dream_state

occursIn(keyword, content) ==
    \E i \in Indices(content) :
        /\ i + Len(keyword) - 1 <= Len(content)
        /\ \A j \in Indices(keyword) : toLowerCaseChar(content[i + j - 1]) = keyword[j]

\* 0.3 + 0.2 for each importance keyword occurring + 0.15 for each emotional
\* keyword occurring + 0.1 beyond 200 characters + 0.1 beyond 500, at most 1.
expectedImportance(content) ==
    Min(One,
        Frac(30)
        + Frac(20) * Cardinality({k \in Indices(importanceKeywords) :
                                     occursIn(importanceKeywords[k], content)})
        + Frac(15) * Cardinality({k \in Indices(emotionalKeywords) :
                                     occursIn(emotionalKeywords[k], content)})
        + (IF Len(content) > 200 THEN Frac(10) ELSE 0)
        + (IF Len(content) > 500 THEN Frac(10) ELSE 0))

C19_StatsOfEmptyStore ==
    (op = "getMemoryStats" /\ Len(memories) = 0) =>
        /\ ret.kind = "stats"
        /\ ret.value.total_memories = 0
        /\ ret.value.average_importance.num = 0
        /\ ret.value.average_importance.den # 0
        /\ ret.value.active_memories = 0
        /\ ret.value.decayed_memories = 0
        /\ ret.value.recent_activity = 0

\* The statistics asked of a store no record was ever put into, after the
\* clock has advanced.
C19_Witness ==
    /\ op = "getMemoryStats"
    /\ memories = << >>
    /\ now > 0
    /\ ret.value.emotional_distribution = << >>

\* C20: getMemoryStats reports total_memories = the number of stored records,
\* active_memories = the number of them whose decayed importance is strictly
\* greater than 0.1, and decayed_memories = total_memories - active_memories:
\* the two add up to the total, and a record at exactly 0.1 is a decayed one.
C20_StatsCounts ==
    op = "getMemoryStats" =>
        LET active == {i \in Indices(memories) : calculateDecay(memories[i]) > Frac(10)}
            decayed == {i \in Indices(memories) : calculateDecay(memories[i]) <= Frac(10)}
        IN  /\ ret.value.total_memories = Len(memories)
            /\ ret.value.active_memories = Cardinality(active)
            /\ ret.value.decayed_memories = Cardinality(decayed)
            /\ ret.value.decayed_memories =
                   ret.value.total_memories - ret.value.active_memories
            /\ ret.value.active_memories + ret.value.decayed_memories =
                   ret.value.total_memories

\* The statistics of a store whose first record has decayed to exactly 0.1
\* and whose second is above it: one active, one decayed.
C20_Witness ==
    /\ op = "getMemoryStats"
    /\ Len(memories) = 2
    /\ calculateDecay(memories[1]) = Frac(10)
    /\ calculateDecay(memories[2]) > Frac(10)
    /\ ret.value.active_memories = 1
    /\ ret.value.decayed_memories = 1

\* Whether a stored record meets every filter the query supplies: decayed
\* importance at least min_importance, emotion_flag the emotion asked for,
\* content holding the text asked for, letter case aside, and one of the tags
\* asked for among its context_tags.
holdsText(content, text) ==
    \E i \in 0..(Len(content) - Len(text)) :
        \A j \in Indices(text) :
            toLowerCaseChar(content[i + j]) = toLowerCaseChar(text[j])

meetsQuery(query, memory) ==
    /\ "min_importance" \in DOMAIN query =>
           calculateDecay(memory) >= query.min_importance
    /\ "emotion" \in DOMAIN query => memory.emotion_flag = query.emotion
    /\ "content" \in DOMAIN query => holdsText(memory.content, query.content)
    /\ "context_tags" \in DOMAIN query =>
           Range(query.context_tags) \cap Range(memory.context_tags) # {}

C22_RetrieveStable ==
    op = "retrieveMemories" =>
        \A k, l \in Indices(ret.value) :
            (k < l /\ ret.value[k].current_importance = ret.value[l].current_importance) =>
                \E i, j \in Indices(memories) :
                    /\ i < j
                    /\ ret.value[k] = withCurrentImportance(memories[i])
                    /\ ret.value[l] = withCurrentImportance(memories[j])

\* Two different records of equal decayed importance returned after the clock
\* has advanced, the one stored first in front.
C22_Witness ==
    /\ op = "retrieveMemories"
    /\ now > 0
    /\ Len(ret.value) = 2
    /\ ret.value[1].current_importance = ret.value[2].current_importance
    /\ ret.value[1] # ret.value[2]
    /\ ret.value[1] = withCurrentImportance(memories[1])
    /\ ret.value[2] = withCurrentImportance(memories[2])

\* C23: extractContextTags(content) returns at most 5 tags, in descending
\* order of the number of times the token occurs in content, tokens occurring
\* equally often in the order of their first occurrence, all-digit tokens
\* such as 2024 like any other.
C23_TagsByFrequencyThenFirst ==
    op = "extractContextTags" =>
        LET ws == tagWords(arg.content)
        IN  /\ Len(ret.value) <= 5
            /\ \A k, l \in Indices(ret.value) :
                  k < l =>
                      \/ tagCount(ws, ret.value[k]) > tagCount(ws, ret.value[l])
                      \/ /\ tagCount(ws, ret.value[k]) = tagCount(ws, ret.value[l])
                         /\ firstIndex(ws, ret.value[k]) < firstIndex(ws, ret.value[l])

\* C24: the records retrieveMemories and getAllMemories return are independent
\* copies.  Each has current_importance = calculateDecay of the stored record
\* at the call and every other field as stored; and whatever a caller then
\* changes on one of them, a field or the contents of its context_tags, the
\* store is as it was.
C24_CopiesIndependent ==
    /\ op \in {"retrieveMemories", "getAllMemories"} =>
           \A k \in Indices(ret.value) :
               ret.value[k] = withCurrentImportance(memories[returnedFrom[k]])
    /\ op \in {"writeCopy", "pushCopyTag"} => memories = before

\* C25: the store alone owns its records.  The record createMemory or
\* accessMemory hands back is no live reference to the stored one: after a
\* caller has written to it the store is as it was, every importance_score
\* still at most 1 and every usage_count still at least 1.
C25_StoreOwnsRecords ==
    op = "writeReturned" =>
        /\ memories = before
        /\ \A i \in Indices(memories) :
              /\ memories[i].importance_score <= One
              /\ memories[i].usage_count >= 1

C27_OneInstant ==
    op = "getMemoryStats" =>
        \E t \in 0..now : ret.value = memoryStatsAcross(memories, t, t, t)

\* The fields of a record that are set when it is created.
CreationFields ==
    {"id", "user_id", "title", "content", "date_created", "context_tags",
     "source_type", "write_method", "decay_rate"}

\* C28: after its creation the id, user_id, title, content, date_created,
\* context_tags, source_type, write_method and decay_rate of a record never
\* change, whatever createMemory, accessMemory, dreamStateProcessing,
\* retrieveMemories and getMemoryStats calls follow; only usage_count,
\* last_accessed, importance_score and dream_state can.
C28_CreationFieldsKept ==
    \A i \in Indices(before) :
        /\ \A f \in CreationFields : memories[i][f] = before[i][f]
        /\ DOMAIN memories[i] = DOMAIN before[i]
        /\ memories[i].decay_rate = 5
        /\ memories[i].context_tags = extractContextTags(memories[i].content)
        /\ memories[i].id.time = memories[i].date_created

\* A record whose four other fields have all changed since its creation, an
\* access being the last call.
C28_Witness ==
    /\ op = "accessMemory"
    /\ Len(memories) = 2
    /\ memories[1].usage_count > 1
    /\ memories[1].last_accessed > memories[1].date_created
    /\ memories[1].importance_score # detectImportance(memories[1].content)
    /\ memories[1].dream_state
    /\ memories[1] # before[1]
    /\ memories[2].source_type = "conversation"

\* C29: accessMemory on one record is not idempotent and saturates.  Each
\* access that finds a record of importance_score below 1 leaves it strictly
\* higher; a record that keeps being accessed reaches importance_score 1, after
\* at most 14 accesses from the lowest creation score 0.3; and a score of 1
\* stays 1 under every later accessMemory and dreamStateProcessing.
C29_AccessSaturates ==
    /\ [][ \A i \in Indices(memories) :
              /\ ( /\ op' = "accessMemory"
                   /\ i = find(memories, arg'.memoryId)
                   /\ memories[i].importance_score < One )
                     => memories'[i].importance_score > memories[i].importance_score
              /\ memories[i].importance_score = One
                     => memories'[i].importance_score = One ]_vars
    /\ [](\A i \in Indices(memories) :
              memories[i].usage_count >= 15 => memories[i].importance_score = One)
    /\ (Len(memories) > 0) ~>
           (Len(memories) > 0 /\ memories[1].importance_score = One)

\* The 14th access of a record created at 0.3 and never consolidated: its
\* score goes from 0.95 to 1.
C29_Witness ==
    /\ op = "accessMemory"
    /\ passes = 0
    /\ memories[1].usage_count = 15
    /\ before[1].importance_score = Frac(95)
    /\ memories[1].importance_score = One

\* C30: dream_state is false for a record from its creation until the first
\* dreamStateProcessing after it, true for every record in the store right
\* after a dreamStateProcessing, and once true never false again under any
\* call; a record created after a pass has dream_state false.
C30_DreamStateOneWay ==
    /\ passes = 0 => \A i \in Indices(memories) : ~ memories[i].dream_state
    /\ op = "dreamStateProcessing" => \A i \in Indices(memories) : memories[i].dream_state
    /\ op = "createMemory" => ~ memories[Len(memories)].dream_state
    /\ \A i \in Indices(before) :
          /\ before[i].dream_state => memories[i].dream_state
          /\ op # "dreamStateProcessing" =>
                 memories[i].dream_state = before[i].dream_state

\* An access of a record marked by the one pass made so far, beside a record
\* created after that pass.
C30_Witness ==
    /\ op = "accessMemory"
    /\ passes = 1
    /\ Len(memories) = 2
    /\ memories[1] # before[1]
    /\ memories[1].dream_state
    /\ ~ memories[2].dream_state

\* C31: access makes a record more resistant to decay.  For a fixed emotion
\* the decay rate 0.05 * (1 - min(0.8, usage_count * 0.1) - weight * 0.2) does
\* not rise with usage_count: it falls strictly from each usage_count 1..7 to
\* the next and is the same from 8 on.
C31_RateFallsWithUsage ==
    op = "calculateDecay" =>
        LET usage == arg.memory.usage_count
            emotion == arg.memory.emotion_flag
        IN  /\ effectiveDecay(usage + 1, emotion) <= effectiveDecay(usage, emotion)
            /\ usage \in 1..7 =>
                   effectiveDecay(usage + 1, emotion) < effectiveDecay(usage, emotion)
            /\ usage >= 8 =>
                   effectiveDecay(usage + 1, emotion) = effectiveDecay(usage, emotion)
            /\ usage >= 8 => effectiveDecay(usage, emotion) = effectiveDecay(8, emotion)

\* The decay of a record used 8 times, which after one tick has lost less than
\* it would have lost when used 7 times and as much as when used 9 times.
C31_Witness ==
    /\ op = "calculateDecay"
    /\ arg.memory.usage_count = 8
    /\ arg.memory.emotion_flag = "anxious"
    /\ arg.memory.importance_score = One
    /\ now = 1
    /\ ret.value = One - effectiveDecay(9, "anxious")
    /\ ret.value > One - effectiveDecay(7, "anxious")

\* C32: an access that finds its record never lowers the record's decayed
\* importance.  Computed at the instant of the access, the decayed importance
\* after it is the new stored importance_score, no time having passed since
\* last_accessed, and is at least the decayed importance just before it, also
\* for a record that had decayed to 0.
C32_AccessNeverLowers ==
    (op = "accessMemory" /\ ret.kind = "record") =>
        LET i == find(before, arg.memoryId)
        IN  /\ calculateDecay(memories[i]) = memories[i].importance_score
            /\ calculateDecay(memories[i]) >= calculateDecay(before[i])
            /\ calculateDecay(ret.value) = ret.value.importance_score

\* An access of a record that had decayed to 0 and stands at its stored score
\* plus 0.05 after it.
C32_Witness ==
    /\ op = "accessMemory"
    /\ ret.kind = "record"
    /\ now > 0
    /\ calculateDecay(before[find(before, arg.memoryId)]) = 0
    /\ calculateDecay(memories[find(before, arg.memoryId)]) =
           before[find(before, arg.memoryId)].importance_score + Frac(5)

\* C33: stored values only grow.  Across every call the stored
\* importance_score, usage_count and last_accessed of each record are at least
\* what they were, the clock not running backwards; a loss of importance
\* shows in the decayed importance computed at a read, never in the store.
C33_StoredValuesGrow ==
    \A i \in Indices(before) :
        /\ memories[i].importance_score >= before[i].importance_score
        /\ memories[i].usage_count >= before[i].usage_count
        /\ memories[i].last_accessed >= before[i].last_accessed

\* A consolidation pass, the clock having advanced, over a record whose
\* decayed importance is below its stored score: the stored score is as before
\* or higher.
C33_Witness ==
    /\ op = "dreamStateProcessing"
    /\ now > 0
    /\ Len(memories) = 2
    /\ calculateDecay(before[1]) < before[1].importance_score
    /\ memories[1].importance_score > before[1].importance_score
    /\ calculateDecay(before[2]) < before[2].importance_score
    /\ memories[2].importance_score = before[2].importance_score

\* C34: recent_activity of getMemoryStats is the number of stored records
\* whose last_accessed is less than 24 hours before now; it is at most
\* total_memories, and a record just created or just accessed is counted.
C34_RecentActivity ==
    op = "getMemoryStats" =>
        LET recent == {i \in Indices(memories) :
                          (now - memories[i].last_accessed) * 24 < 24 * TicksPerDay}
            fresh == {i \in Indices(memories) : memories[i].last_accessed = now}
        IN  /\ ret.value.recent_activity = Cardinality(recent)
            /\ ret.value.recent_activity <= ret.value.total_memories
            /\ ret.value.recent_activity >= Cardinality(fresh)

\* The statistics of a store whose first record was last accessed exactly 24
\* hours ago and whose second was accessed at this instant: one is recent.
C34_Witness ==
    /\ op = "getMemoryStats"
    /\ Len(memories) = 2
    /\ now - memories[1].last_accessed = TicksPerDay
    /\ memories[2].last_accessed = now
    /\ memories[2].usage_count > 1
    /\ ret.value.recent_activity = 1

\* The sum of f over the finite set S.
RECURSIVE sumOver(_, _)
sumOver(f, S) ==
    IF S = {} THEN 0
    ELSE LET x == CHOOSE y \in S : TRUE
         IN  f[x] + sumOver(f, S \ {x})

\* C35: emotional_distribution of getMemoryStats gives for each emotion
\* category the number of stored records with that emotion_flag, a category
\* without an entry having none, so that the counts add up to total_memories.
C35_EmotionalDistribution ==
    op = "getMemoryStats" =>
        LET distribution == ret.value.emotional_distribution
            carrying(e) == Cardinality({i \in Indices(memories) : memories[i].emotion_flag = e})
        IN  /\ DOMAIN distribution \subseteq EmotionFlags
            /\ \A e \in EmotionFlags :
                  carrying(e) = IF e \in DOMAIN distribution THEN distribution[e] ELSE 0
            /\ sumOver(distribution, DOMAIN distribution) = ret.value.total_memories

\* The statistics of a store of three records, two of one emotion and one of
\* another.
C35_Witness ==
    /\ op = "getMemoryStats"
    /\ Len(memories) = 3
    /\ DOMAIN ret.value.emotional_distribution = {"neutral", "anxious"}
    /\ ret.value.emotional_distribution["neutral"] = 2
    /\ ret.value.emotional_distribution["anxious"] = 1

\* Whether tag stands in content, lowered, as a whole token: a run of letters,
\* digits and underscores with no such character before or behind it.
isTokenOf(tag, content) ==
    \E i \in Indices(content) :
        /\ i + Len(tag) - 1 <= Len(content)
        /\ \A j \in Indices(tag) : toLowerCaseChar(content[i + j - 1]) = tag[j]
        /\ i = 1 \/ content[i - 1] \notin WordChars
        /\ i + Len(tag) - 1 = Len(content) \/ content[i + Len(tag)] \notin WordChars

\* C36: every tag extractContextTags(content) returns is a token of the
\* content in lower case, has more than 3 characters and is no stop word, and
\* no tag is returned twice.
C36_TagsQualify ==
    op = "extractContextTags" =>
        /\ \A k \in Indices(ret.value) :
              LET tag == ret.value[k]
              IN  /\ Len(tag) > 3
                  /\ \A j \in Indices(tag) : tag[j] \in WordChars \ Range(UpperCase)
                  /\ isTokenOf(tag, arg.content)
                  /\ tag \notin commonWords
        /\ \A k, l \in Indices(ret.value) : k # l => ret.value[k] # ret.value[l]

\* The tags of a content with a stop word of 4 letters, words of 3 letters,
\* capitals and a word written twice: the two words that qualify, each once.
C36_Witness ==
    /\ op = "extractContextTags"
    /\ includes(arg.content, <<"w","i","t","h">>)
    /\ includes(arg.content, <<"c","a","t">>)
    /\ includes(arg.content, <<"W","a","l","k">>)
    /\ ret.value = << <<"w","a","l","k">>, <<"u","r","g","e","n","t">> >>

====
